---- MODULE Spec2Model ----
(***************************************************************************)
(* Model of scripts/halal_classifier.py: the JSONC comment scanner, the    *)
(* text normalizer, the keyword matcher, the classification engine and the *)
(* batch driver `run`.                                                     *)
(*                                                                         *)
(* A Python str is a sequence of one-character strings.  The Python None,  *)
(* the pandas missing value and a missing dict key are each a one-element  *)
(* sequence holding a token that is no character, so that every value the  *)
(* program handles is a sequence and `isinstance(x, str)` is a test        *)
(* against these tokens.                                                   *)
(***************************************************************************)
EXTENDS Integers, Sequences, FiniteSets, TLC

VARIABLES
    pc,          \* position of the operation under way
    raw_text,    \* strip_json_comments: the input text
    i,           \* strip_json_comments: index of the next character (1-based)
    in_string,   \* strip_json_comments: inside a double-quoted string
    escaped,     \* strip_json_comments: the previous character was a backslash
    result,      \* strip_json_comments: the output buffer
    subject,     \* keyword_match: normalized_text argument
    keyword,     \* keyword_match: keyword argument
    matched,     \* keyword_match: returned value
    material,    \* classify_material: material_name argument
    ruleset,     \* the ruleset parsed by load_rules
    outcome,     \* classify_material: returned pair, or the raised error
    csv,         \* run: the table read by pd.read_csv
    df,          \* run: the data frame being updated
    idx,         \* run: row the loop is at
    updated,     \* run: the `updated` counter
    overwrite,   \* run: --overwrite
    dry_run,     \* run: --dry-run
    written      \* run: the table written by df.to_csv, or NotWritten

vars == <<pc, raw_text, i, in_string, escaped, result, subject, keyword,
          matched, material, ruleset, outcome, csv, df, idx, updated,
          overwrite, dry_run, written>>

scanVars == <<raw_text, i, in_string, escaped, result>>
matchVars == <<subject, keyword, matched>>
classifyVars == <<material, outcome>>
runVars == <<csv, df, idx, updated, overwrite, dry_run, written>>

----------------------------------------------------------------------------
(* Bounds of the model.                                                    *)

MaxText == 6        \* longest text given to strip_json_comments
MaxSubject == 3     \* longest normalized subject given to keyword_match
MaxKeyword == 3     \* longest keyword given to keyword_match
MaxName == 2        \* longest material name given to classify_material
MaxEntries == 3     \* most override entries and keywords in one ruleset
MaxRows == 2        \* most rows in the input table

SeqsUpTo(S, n) == UNION {[1..k -> S] : k \in 0..n}

----------------------------------------------------------------------------
(* Values.                                                                 *)

None == <<"None">>          \* Python None
NA == <<"<NA>">>            \* pandas missing value (NaN read from the CSV, pd.NA)
NoColumn == <<"no column">> \* a column the CSV does not have

Whitespace == {" "}
LowerOf == [c \in {"a", "b", "A", "B", " "} |->
              IF c = "A" THEN "a" ELSE IF c = "B" THEN "b" ELSE c]

IsStr(x) == x \notin {None, NA, NoColumn}

----------------------------------------------------------------------------
(* normalize                                                               *)

RECURSIVE LStrip(_)
LStrip(s) == IF s # <<>> /\ Head(s) \in Whitespace THEN LStrip(Tail(s)) ELSE s

RECURSIVE RStrip(_)
RStrip(s) ==
    IF s # <<>> /\ s[Len(s)] \in Whitespace
    THEN RStrip(SubSeq(s, 1, Len(s) - 1)) ELSE s

\* str.strip()
Strip(s) == RStrip(LStrip(s))

\* str.lower()
Lower(s) == [k \in 1..Len(s) |-> LowerOf[s[k]]]

\* re.sub(r"\s+", "", s)
RECURSIVE RemoveWhitespace(_)
RemoveWhitespace(s) ==
    IF s = <<>> THEN <<>>
    ELSE IF Head(s) \in Whitespace THEN RemoveWhitespace(Tail(s))
    ELSE <<Head(s)>> \o RemoveWhitespace(Tail(s))

normalize(text) ==
    IF ~IsStr(text) THEN <<>>
    ELSE RemoveWhitespace(Lower(Strip(text)))

----------------------------------------------------------------------------
(* keyword_match                                                           *)

\* Python's `needle in haystack` on two str
Contains(haystack, needle) ==
    \E k \in 0..(Len(haystack) - Len(needle)) :
        SubSeq(haystack, k + 1, k + Len(needle)) = needle

keyword_match_substring_only(normalized_text, kw) ==
    LET normalized_keyword == normalize(kw) IN
    IF normalized_keyword = <<>> THEN FALSE
    ELSE Contains(normalized_text, normalized_keyword)

keyword_match(normalized_text, kw) ==
    LET normalized_keyword == normalize(kw) IN
    IF normalized_keyword = <<>> THEN FALSE
    ELSE IF Len(normalized_keyword) = 1
         THEN normalized_text = normalized_keyword
    ELSE Contains(normalized_text, normalized_keyword)

----------------------------------------------------------------------------
(* classify_material                                                       *)

StatusKeys == {"halal", "haram", "review"}

HALAL == <<"H", "A", "L", "A", "L">>
HARAM == <<"H", "A", "R", "A", "M">>
REVIEW == <<"R", "E", "V", "I", "E", "W">>

\* the fixed parts of the reason strings
OverrideReason == <<"exact-match override">>
HaramReason == <<"haram keyword: ">>
ReviewReason == <<"review keyword: ">>
HalalReason == <<"halal keyword: ">>

\* a raised exception (KeyError, ValueError, JSONDecodeError)
Raised == [err |-> TRUE, status |-> None, reason |-> None]
Returned(status, reason) == [err |-> FALSE, status |-> status, reason |-> reason]

\* return status_labels[status_key], reason
ReturnLabel(status_labels, status_key, reason) ==
    IF status_key \in DOMAIN status_labels
    THEN Returned(status_labels[status_key], reason)
    ELSE Raised

Min(S) == CHOOSE x \in S : \A y \in S : x <= y
Max(S) == CHOOSE x \in S : \A y \in S : x >= y

\* the override entries whose normalized key equals the normalized name
OverrideHits(normalized, overrides) ==
    {k \in 1..Len(overrides) : normalize(overrides[k].key) = normalized}

\* the keywords of one tier that match the normalized name
KeywordHits(normalized, keywords) ==
    {k \in 1..Len(keywords) : keyword_match(normalized, keywords[k])}

\* the entry at which `for key, value in overrides.items()` returns
OverrideTaken_last(normalized, overrides) ==
    Max(OverrideHits(normalized, overrides))

OverrideTaken(normalized, overrides) ==
    Min(OverrideHits(normalized, overrides))

\* value.get("reason", <default>)
ReasonOf(value) == IF value.has_reason THEN value.reason ELSE OverrideReason

\* the three keyword loops
ClassifyByKeywords_halal_first(normalized, rs) ==
    LET haram == KeywordHits(normalized, rs.haram)
        review == KeywordHits(normalized, rs.review)
        halal == KeywordHits(normalized, rs.halal)
    IN  IF halal # {}
        THEN ReturnLabel(rs.status_labels, "halal",
                         HalalReason \o rs.halal[Min(halal)])
        ELSE IF review # {}
        THEN ReturnLabel(rs.status_labels, "review",
                         ReviewReason \o rs.review[Min(review)])
        ELSE IF haram # {}
        THEN ReturnLabel(rs.status_labels, "haram",
                         HaramReason \o rs.haram[Min(haram)])
        ELSE Returned(None, None)

ClassifyByKeywords(normalized, rs) ==
    LET haram == KeywordHits(normalized, rs.haram)
        review == KeywordHits(normalized, rs.review)
        halal == KeywordHits(normalized, rs.halal)
    IN  IF haram # {}
        THEN ReturnLabel(rs.status_labels, "haram",
                         HaramReason \o rs.haram[Min(haram)])
        ELSE IF review # {}
        THEN ReturnLabel(rs.status_labels, "review",
                         ReviewReason \o rs.review[Min(review)])
        ELSE IF halal # {}
        THEN ReturnLabel(rs.status_labels, "halal",
                         HalalReason \o rs.halal[Min(halal)])
        ELSE Returned(None, None)

\* A ruleset is [valid_json, has_status_labels, has_rules, status_labels,
\* overrides, haram, review, halal]; an absent overrides.exact or an absent
\* tier is the empty sequence, as the .get defaults make it.
classify_material(material_name, rs) ==
    IF ~rs.has_status_labels \/ ~rs.has_rules THEN Raised
    ELSE
    LET rawname == IF IsStr(material_name) THEN material_name ELSE <<>>
        normalized == normalize(rawname)
    IN  IF OverrideHits(normalized, rs.overrides) # {}
        THEN LET value == rs.overrides[OverrideTaken(normalized, rs.overrides)]
             IN  ReturnLabel(rs.status_labels, value.status, ReasonOf(value))
        ELSE ClassifyByKeywords(normalized, rs)

FullLabels == [k \in StatusKeys |->
                 IF k = "halal" THEN HALAL
                 ELSE IF k = "haram" THEN HARAM ELSE REVIEW]
NoHaramLabels == [k \in {"halal", "review"} |-> FullLabels[k]]
LabelMaps == {FullLabels, NoHaramLabels}

NameChars == {"a", "b", "A", " "}
Names == SeqsUpTo(NameChars, MaxName) \cup {None}

Keywords == {<<" ">>, <<"a">>, <<"A", "b">>}

OverrideEntries == {
    [key |-> <<"a">>, status |-> "review", has_reason |-> TRUE, reason |-> <<"r">>],
    [key |-> <<" ", "A">>, status |-> "halal", has_reason |-> FALSE, reason |-> None],
    [key |-> <<" ">>, status |-> "halal", has_reason |-> FALSE, reason |-> None],
    [key |-> <<"b">>, status |-> "haram", has_reason |-> TRUE, reason |-> None] }

\* the keys of a JSON object are distinct
DistinctKeys(overrides) ==
    \A j, k \in 1..Len(overrides) : overrides[j].key = overrides[k].key => j = k

NoRuleset ==
    [valid_json |-> TRUE, has_status_labels |-> TRUE, has_rules |-> TRUE,
     status_labels |-> FullLabels, overrides |-> <<>>,
     haram |-> <<>>, review |-> <<>>, halal |-> <<>>]

ScanIdle ==
    /\ raw_text = <<>> /\ i = 1 /\ in_string = FALSE /\ escaped = FALSE
    /\ result = <<>>
MatchIdle == subject = <<>> /\ keyword = <<>> /\ matched = FALSE
ClassifyIdle == material = None /\ outcome = Returned(None, None)
RulesetIdle == ruleset = NoRuleset
NoTable == [has_material_name |-> TRUE, has_halal_status |-> TRUE,
            has_reason |-> TRUE, rows |-> <<>>]
NotWritten == [done |-> FALSE, table |-> <<>>]
RunIdle ==
    /\ csv = NoTable /\ df = <<>> /\ idx = 1 /\ updated = 0
    /\ overwrite = FALSE /\ dry_run = FALSE /\ written = NotWritten

InitClassify ==
    /\ pc = "classify"
    /\ material \in Names
    /\ outcome = Returned(None, None)
    /\ \E ov \in SeqsUpTo(OverrideEntries, MaxEntries) :
         /\ DistinctKeys(ov)
         /\ \E h \in SeqsUpTo(Keywords, MaxEntries - Len(ov)) :
            \E r \in SeqsUpTo(Keywords, MaxEntries - Len(ov) - Len(h)) :
            \E l \in SeqsUpTo(Keywords, MaxEntries - Len(ov) - Len(h) - Len(r)) :
            \E labels \in LabelMaps :
              ruleset = [valid_json |-> TRUE, has_status_labels |-> TRUE,
                         has_rules |-> TRUE, status_labels |-> labels,
                         overrides |-> ov, haram |-> h, review |-> r,
                         halal |-> l]
    /\ ScanIdle /\ MatchIdle /\ RunIdle

Classify ==
    /\ pc = "classify"
    /\ outcome' = classify_material(material, ruleset)
    /\ pc' = "classified"
    /\ UNCHANGED <<material, ruleset>>

NextClassify == Classify /\ UNCHANGED <<scanVars, matchVars, runVars>>

SpecClassify == InitClassify /\ [][NextClassify]_vars

----------------------------------------------------------------------------
(* strip_json_comments                                                     *)

Quote == "\""
Backslash == "\\"
Slash == "/"
Star == "*"
Newline == "\n"
TextChars == {Quote, Backslash, Slash, Star, Newline, "a"}

\* raw_text[i + 1] if i + 1 < n else ""
CharAt(text, j) == IF j <= Len(text) THEN text[j] ELSE ""

\* the in_string branch: the state after copying ch
StringState_no_escape(ch, esc) ==
    [in_string |-> ch # Quote, escaped |-> FALSE]

StringState(ch, esc) ==
    IF esc THEN [in_string |-> TRUE, escaped |-> FALSE]
    ELSE IF ch = Backslash THEN [in_string |-> TRUE, escaped |-> TRUE]
    ELSE IF ch = Quote THEN [in_string |-> FALSE, escaped |-> FALSE]
    ELSE [in_string |-> TRUE, escaped |-> FALSE]

\* while i < n and raw_text[i] not in ("\n", "\r"): i += 1
RECURSIVE SkipLineComment(_, _)
SkipLineComment(text, j) ==
    IF j <= Len(text) /\ text[j] # Newline
    THEN SkipLineComment(text, j + 1) ELSE j

\* while i + 1 < n and not (raw_text[i] == "*" and raw_text[i + 1] == "/"): i += 1
RECURSIVE SkipBlockComment(_, _)
SkipBlockComment(text, j) ==
    IF j < Len(text) /\ ~(text[j] = Star /\ text[j + 1] = Slash)
    THEN SkipBlockComment(text, j + 1) ELSE j

\* i += 2 if i + 1 < n else 0
AfterBlockComment(text, j) == IF j < Len(text) THEN j + 2 ELSE j

ScanInString ==
    /\ pc = "scan"
    /\ i <= Len(raw_text)
    /\ in_string
    /\ result' = Append(result, raw_text[i])
    /\ LET st == StringState(raw_text[i], escaped) IN
         /\ in_string' = st.in_string
         /\ escaped' = st.escaped
    /\ i' = i + 1
    /\ UNCHANGED <<pc, raw_text>>

ScanOpenString ==
    /\ pc = "scan"
    /\ i <= Len(raw_text)
    /\ ~in_string
    /\ raw_text[i] = Quote
    /\ in_string' = TRUE
    /\ result' = Append(result, raw_text[i])
    /\ i' = i + 1
    /\ UNCHANGED <<pc, raw_text, escaped>>

ScanLineComment ==
    /\ pc = "scan"
    /\ i <= Len(raw_text)
    /\ ~in_string
    /\ raw_text[i] = Slash
    /\ CharAt(raw_text, i + 1) = Slash
    /\ i' = SkipLineComment(raw_text, i + 2)
    /\ UNCHANGED <<pc, raw_text, in_string, escaped, result>>

ScanBlockComment ==
    /\ pc = "scan"
    /\ i <= Len(raw_text)
    /\ ~in_string
    /\ raw_text[i] = Slash
    /\ CharAt(raw_text, i + 1) = Star
    /\ i' = AfterBlockComment(raw_text, SkipBlockComment(raw_text, i + 2))
    /\ UNCHANGED <<pc, raw_text, in_string, escaped, result>>

ScanCopy ==
    /\ pc = "scan"
    /\ i <= Len(raw_text)
    /\ ~in_string
    /\ raw_text[i] # Quote
    /\ ~(raw_text[i] = Slash /\ CharAt(raw_text, i + 1) \in {Slash, Star})
    /\ result' = Append(result, raw_text[i])
    /\ i' = i + 1
    /\ UNCHANGED <<pc, raw_text, in_string, escaped>>

\* the loop test fails: return "".join(result)
ScanReturn ==
    /\ pc = "scan"
    /\ i > Len(raw_text)
    /\ pc' = "scanned"
    /\ UNCHANGED scanVars


InitStrip ==
    /\ pc = "scan"
    /\ raw_text \in SeqsUpTo(TextChars, MaxText)
    /\ i = 1 /\ in_string = FALSE /\ escaped = FALSE /\ result = <<>>
    /\ MatchIdle /\ ClassifyIdle /\ RulesetIdle /\ RunIdle

NextStrip ==
    \/ (ScanInString /\ UNCHANGED <<matchVars, classifyVars, ruleset, runVars>>)
    \/ (ScanOpenString /\ UNCHANGED <<matchVars, classifyVars, ruleset, runVars>>)
    \/ (ScanLineComment /\ UNCHANGED <<matchVars, classifyVars, ruleset, runVars>>)
    \/ (ScanBlockComment /\ UNCHANGED <<matchVars, classifyVars, ruleset, runVars>>)
    \/ (ScanCopy /\ UNCHANGED <<matchVars, classifyVars, ruleset, runVars>>)
    \/ (ScanReturn /\ UNCHANGED <<matchVars, classifyVars, ruleset, runVars>>)

SpecStrip == InitStrip /\ [][NextStrip]_vars

----------------------------------------------------------------------------
(* keyword_match as an operation                                           *)

SubjectChars == {"a", "b"}
KeywordChars == {"a", "b", "A", " "}

InitMatch ==
    /\ pc = "match"
    /\ subject \in SeqsUpTo(SubjectChars, MaxSubject)
    /\ keyword \in SeqsUpTo(KeywordChars, MaxKeyword)
    /\ matched = FALSE
    /\ ScanIdle /\ ClassifyIdle /\ RulesetIdle /\ RunIdle

Match ==
    /\ pc = "match"
    /\ matched' = keyword_match(subject, keyword)
    /\ pc' = "matched"
    /\ UNCHANGED <<subject, keyword>>

NextMatch == Match /\ UNCHANGED <<scanVars, classifyVars, ruleset, runVars>>

SpecMatch == InitMatch /\ [][NextMatch]_vars

----------------------------------------------------------------------------
(* should_update and run                                                   *)

should_update_always(existing_status, ow) == TRUE

should_update_empty_only(existing_status, ow) ==
    IF ow THEN TRUE
    ELSE IF existing_status = NA THEN TRUE
    ELSE existing_status = <<>>

should_update(existing_status, ow) ==
    IF ow THEN TRUE
    ELSE IF existing_status = NA THEN TRUE
    ELSE IF IsStr(existing_status) /\ Strip(existing_status) = <<>> THEN TRUE
    ELSE FALSE

\* status if status is not None else pd.NA
Cell(value) == IF value # None THEN value ELSE NA

\* df["halal_status"] = "" and df["reason"] = "" for a column the CSV lacks
PrepareRow(row) ==
    [material_name |-> row.material_name,
     halal_status |-> IF row.halal_status = NoColumn THEN <<>> ELSE row.halal_status,
     reason |-> IF row.reason = NoColumn THEN <<>> ELSE row.reason]

PrepareColumns(table) == [k \in 1..Len(table.rows) |-> PrepareRow(table.rows[k])]

RunRuleset ==
    [valid_json |-> TRUE, has_status_labels |-> TRUE, has_rules |-> TRUE,
     status_labels |-> FullLabels,
     overrides |-> <<[key |-> <<"a">>, status |-> "review",
                      has_reason |-> FALSE, reason |-> None]>>,
     haram |-> <<<<"A", "b">>>>, review |-> <<>>, halal |-> <<<<"b", "b">>>>]

RunRulesets == {
    RunRuleset,
    [RunRuleset EXCEPT !.valid_json = FALSE],
    [RunRuleset EXCEPT !.has_status_labels = FALSE],
    [RunRuleset EXCEPT !.has_rules = FALSE],
    [RunRuleset EXCEPT !.status_labels = NoHaramLabels] }

RunNames == {NA, <<"a">>, <<"A", " ", "b">>, <<"b">>, <<"b", "b">>}
OldStatus == <<"O", "L", "D">>
OldReason == <<"old reason">>

\* the cells of the halal_status and reason columns of one CSV row
StatusCells == {
    [halal_status |-> NA, reason |-> NA],
    [halal_status |-> <<" ">>, reason |-> NA],
    [halal_status |-> OldStatus, reason |-> OldReason] }

ColumnSets == {
    [has_material_name |-> TRUE, has_halal_status |-> TRUE, has_reason |-> TRUE],
    [has_material_name |-> TRUE, has_halal_status |-> FALSE, has_reason |-> FALSE],
    [has_material_name |-> FALSE, has_halal_status |-> TRUE, has_reason |-> TRUE] }

RowsOf(cols) ==
    {[material_name |-> IF cols.has_material_name THEN n ELSE NoColumn,
      halal_status |-> IF cols.has_halal_status THEN c.halal_status ELSE NoColumn,
      reason |-> IF cols.has_reason THEN c.reason ELSE NoColumn] :
        n \in RunNames, c \in StatusCells}

Init ==
    /\ pc = "start"
    /\ ruleset \in RunRulesets
    /\ \E cols \in ColumnSets :
       \E rows \in SeqsUpTo(RowsOf(cols), MaxRows) :
         csv = [has_material_name |-> cols.has_material_name,
                has_halal_status |-> cols.has_halal_status,
                has_reason |-> cols.has_reason, rows |-> rows]
    /\ df = <<>> /\ idx = 1 /\ updated = 0
    /\ overwrite \in BOOLEAN
    /\ dry_run \in BOOLEAN
    /\ written = NotWritten
    /\ ScanIdle /\ MatchIdle /\ ClassifyIdle

\* load_rules: json.loads raises on text that is not JSON
LoadRulesFails ==
    /\ pc = "start"
    /\ ~ruleset.valid_json
    /\ pc' = "error"
    /\ UNCHANGED <<ruleset, runVars>>

\* raise ValueError("`material_name` column is required")
MissingColumn ==
    /\ pc = "start"
    /\ ruleset.valid_json
    /\ ~csv.has_material_name
    /\ pc' = "error"
    /\ UNCHANGED <<ruleset, runVars>>

\* the target columns are created and string-typed; updated = 0
Prepare ==
    /\ pc = "start"
    /\ ruleset.valid_json
    /\ csv.has_material_name
    /\ df' = PrepareColumns(csv)
    /\ idx' = 1
    /\ updated' = 0
    /\ pc' = "loop"
    /\ UNCHANGED <<ruleset, csv, overwrite, dry_run, written>>

\* if not should_update(...): continue
RowSkip ==
    /\ pc = "loop"
    /\ idx <= Len(df)
    /\ ~should_update(df[idx].halal_status, overwrite)
    /\ idx' = idx + 1
    /\ UNCHANGED <<pc, ruleset, csv, df, updated, overwrite, dry_run, written>>

RowUpdate ==
    /\ pc = "loop"
    /\ idx <= Len(df)
    /\ should_update(df[idx].halal_status, overwrite)
    /\ LET r == classify_material(df[idx].material_name, ruleset) IN
         /\ ~r.err
         /\ df' = [df EXCEPT ![idx].halal_status = Cell(r.status),
                             ![idx].reason = Cell(r.reason)]
    /\ updated' = updated + 1
    /\ idx' = idx + 1
    /\ UNCHANGED <<pc, ruleset, csv, overwrite, dry_run, written>>

\* classify_material raises KeyError
RowRaises ==
    /\ pc = "loop"
    /\ idx <= Len(df)
    /\ should_update(df[idx].halal_status, overwrite)
    /\ classify_material(df[idx].material_name, ruleset).err
    /\ pc' = "error"
    /\ UNCHANGED <<ruleset, runVars>>

\* the summary is printed; dry-run returns without writing
DryRunReturn ==
    /\ pc = "loop"
    /\ idx > Len(df)
    /\ dry_run
    /\ pc' = "done"
    /\ UNCHANGED <<ruleset, runVars>>

\* the summary is printed; df.to_csv(output_csv)
WriteOutput ==
    /\ pc = "loop"
    /\ idx > Len(df)
    /\ ~dry_run
    /\ written' = [done |-> TRUE, table |-> df]
    /\ pc' = "done"
    /\ UNCHANGED <<ruleset, csv, df, idx, updated, overwrite, dry_run>>

Next ==
    \/ (LoadRulesFails /\ UNCHANGED <<scanVars, matchVars, classifyVars>>)
    \/ (MissingColumn /\ UNCHANGED <<scanVars, matchVars, classifyVars>>)
    \/ (Prepare /\ UNCHANGED <<scanVars, matchVars, classifyVars>>)
    \/ (RowSkip /\ UNCHANGED <<scanVars, matchVars, classifyVars>>)
    \/ (RowUpdate /\ UNCHANGED <<scanVars, matchVars, classifyVars>>)
    \/ (RowRaises /\ UNCHANGED <<scanVars, matchVars, classifyVars>>)
    \/ (DryRunReturn /\ UNCHANGED <<scanVars, matchVars, classifyVars>>)
    \/ (WriteOutput /\ UNCHANGED <<scanVars, matchVars, classifyVars>>)

Spec == Init /\ [][Next]_vars

----------------------------------------------------------------------------
(* Properties of classify_material, checked under SpecClassify.            *)

Normalized == normalize(IF IsStr(material) THEN material ELSE <<>>)

NoOverrideMatches ==
    \A k \in 1..Len(ruleset.overrides) :
        normalize(ruleset.overrides[k].key) # Normalized

SomeKeywordMatches(keywords) ==
    \E k \in 1..Len(keywords) : keyword_match(Normalized, keywords[k])

\* the call returned status_labels[key], or raised because the key is undefined
ResultIsLabel(key) ==
    IF key \in DOMAIN ruleset.status_labels
    THEN ~outcome.err /\ outcome.status = ruleset.status_labels[key]
    ELSE outcome.err

\* C1: when no exact override matches the name, a matching haram keyword
\* makes the status status_labels["haram"] whatever review and halal
\* keywords match too; failing that, a matching review keyword makes it
\* status_labels["review"] even when a halal keyword matches.
C1_TierPrecedence ==
    (pc = "classified" /\ NoOverrideMatches) =>
        /\ SomeKeywordMatches(ruleset.haram) => ResultIsLabel("haram")
        /\ (~SomeKeywordMatches(ruleset.haram) /\ SomeKeywordMatches(ruleset.review))
              => ResultIsLabel("review")

\* a haram keyword matches behind a non-matching one while the review and
\* halal tiers match too, and the haram label is returned
C1_Witness ==
    /\ pc = "classified"
    /\ NoOverrideMatches
    /\ Len(ruleset.haram) = 2
    /\ ~keyword_match(Normalized, ruleset.haram[1])
    /\ keyword_match(Normalized, ruleset.haram[2])
    /\ SomeKeywordMatches(ruleset.halal)
    /\ ~outcome.err
    /\ outcome.status = HARAM

\* C2: when some override key normalizes to the normalized name, the result
\* is status_labels[status] and the reason of the first such override in
\* definition order, whatever the keyword tiers hold.
C2_OverrideFirst ==
    pc = "classified" =>
        \A k \in 1..Len(ruleset.overrides) :
            ( /\ normalize(ruleset.overrides[k].key) = Normalized
              /\ \A j \in 1..(k - 1) :
                    normalize(ruleset.overrides[j].key) # Normalized )
            => /\ ResultIsLabel(ruleset.overrides[k].status)
               /\ ~outcome.err =>
                    outcome.reason =
                        IF ruleset.overrides[k].has_reason
                        THEN ruleset.overrides[k].reason
                        ELSE OverrideReason

\* two overrides of different status match a name that a haram keyword
\* matches too, and the first override's label is returned
C2_Witness ==
    /\ pc = "classified"
    /\ Len(ruleset.overrides) = 2
    /\ normalize(ruleset.overrides[1].key) = Normalized
    /\ normalize(ruleset.overrides[2].key) = Normalized
    /\ ruleset.overrides[1].status # ruleset.overrides[2].status
    /\ SomeKeywordMatches(ruleset.haram)
    /\ ~outcome.err
    /\ outcome.status = ruleset.status_labels[ruleset.overrides[1].status]
    /\ outcome.status # HARAM

\* C5: a returned status and reason are both present or both absent.
C5_StatusAndReasonTogether ==
    (pc = "classified" /\ ~outcome.err) =>
        ((outcome.status = None) <=> (outcome.reason = None))

\* C7: a missing or non-string material name matches nothing: the call
\* returns (absent, absent).
C7_MissingNameMatchesNothing ==
    (pc = "classified" /\ ~IsStr(material)) =>
        outcome = Returned(None, None)

----------------------------------------------------------------------------
(* Properties of keyword_match, checked under SpecMatch.                   *)

\* needle occurs as a contiguous run of characters of haystack
OccursIn(needle, haystack) ==
    \E a \in 0..Len(haystack) : \E b \in a..Len(haystack) :
        SubSeq(haystack, a + 1, b) = needle

\* C9: on a normalized subject, an empty normalized keyword never matches, a
\* one-character normalized keyword matches iff the subject equals it, and
\* a longer one matches iff it occurs as a contiguous substring.
C9_KeywordMatch ==
    pc = "matched" =>
        LET nk == normalize(keyword) IN
        matched = IF Len(nk) = 0 THEN FALSE
                  ELSE IF Len(nk) = 1 THEN subject = nk
                  ELSE OccursIn(nk, subject)

\* a one-character keyword occurs inside a longer subject and does not match
C9_Witness ==
    /\ pc = "matched"
    /\ Len(normalize(keyword)) = 1
    /\ Len(keyword) > 1
    /\ Len(subject) > 1
    /\ OccursIn(normalize(keyword), subject)
    /\ ~matched

----------------------------------------------------------------------------
(* Properties of strip_json_comments, checked under SpecStrip.             *)

\* The string state after the first k characters of a text that has no
\* comment among them: "out", "in", or "esc" (in a string, after a backslash).
RECURSIVE QuoteMode(_, _)
QuoteMode(text, k) ==
    IF k = 0 THEN "out"
    ELSE LET before == QuoteMode(text, k - 1) IN
         IF before = "out" THEN (IF text[k] = Quote THEN "in" ELSE "out")
         ELSE IF before = "esc" THEN "in"
         ELSE IF text[k] = Backslash THEN "esc"
         ELSE IF text[k] = Quote THEN "out"
         ELSE "in"

\* the position of the first slash that is outside every string, or one past
\* the end of the text
FirstBareSlash(text) ==
    Min({k \in 1..Len(text) :
            text[k] = Slash /\ QuoteMode(text, k - 1) = "out"}
        \cup {Len(text) + 1})

Prefix(s, n) == SubSeq(s, 1, n)

\* C3: the scanner copies every character of a string unchanged: a step
\* taken inside a string appends the character it is at, and the output
\* starts with the input up to the first slash outside a string, so that no
\* slash inside a string, after an escaped quote or not, starts a comment.
C3_StringsPreserved ==
    /\ [](pc = "scanned" =>
            LET m == FirstBareSlash(raw_text) IN
            /\ Len(result) >= m - 1
            /\ Prefix(result, m - 1) = Prefix(raw_text, m - 1))
    /\ [][(pc = "scan" /\ in_string /\ i <= Len(raw_text)) =>
            (result' = Append(result, raw_text[i]) /\ i' = i + 1)]_vars

\* the string "\"//" was scanned and came out whole
C3_Witness ==
    /\ pc = "scanned"
    /\ raw_text = <<Quote, Backslash, Quote, Slash, Slash, Quote>>
    /\ result = raw_text

NoBlockEnd(text, from) ==
    \A k \in from..(Len(text) - 1) : ~(text[k] = Star /\ text[k + 1] = Slash)

\* C4: when the first slash outside a string opens a block comment that is
\* never closed, the output is exactly the text before that comment.
C4_UnterminatedBlockComment ==
    pc = "scanned" =>
        LET p == FirstBareSlash(raw_text) IN
        (p < Len(raw_text) /\ raw_text[p + 1] = Star /\ NoBlockEnd(raw_text, p + 2))
            => result = Prefix(raw_text, p - 1)

----------------------------------------------------------------------------
(* Properties of run, checked under Spec.                                  *)

\* the data frame before the loop
BeforeLoop == PrepareColumns(csv)

\* the overwrite flag is set, or the status is missing, or it is a string of
\* whitespace only
Eligible(status) ==
    \/ overwrite
    \/ status = NA
    \/ (IsStr(status) /\ \A k \in 1..Len(status) : status[k] \in Whitespace)

\* C6: a run whose configuration lacks status_labels or rules fails and
\* never writes the output.
C6_MissingKeysFail ==
    (~ruleset.has_status_labels \/ ~ruleset.has_rules) =>
        (pc # "done" /\ ~written.done)

\* C8: should_update holds exactly of the eligible records, and a record that
\* is not eligible keeps its halal_status and reason through the loop.
C8_IneligibleUntouched ==
    pc \in {"loop", "done"} =>
        \A k \in 1..Len(df) :
            /\ should_update(BeforeLoop[k].halal_status, overwrite)
                   <=> Eligible(BeforeLoop[k].halal_status)
            /\ ~Eligible(BeforeLoop[k].halal_status) => df[k] = BeforeLoop[k]

\* the loop ended having updated one record and left another, which held a
\* status, as it was
C8_Witness ==
    /\ pc = "done"
    /\ updated = 1
    /\ Len(df) = 2
    /\ \E k \in 1..2 :
         /\ BeforeLoop[k].halal_status = OldStatus
         /\ df[k].halal_status = OldStatus
         /\ df[k].reason = OldReason
    /\ \E k \in 1..2 :
         /\ BeforeLoop[k].halal_status = <<" ">>
         /\ df[k].halal_status # <<" ">>

\* C10: after the loop every eligible record holds the result of
\* classify_material on its material_name, an absent field as the missing
\* value, and `updated` counts the eligible records.
C10_EligibleClassified ==
    pc = "done" =>
        /\ \A k \in 1..Len(df) :
              Eligible(BeforeLoop[k].halal_status) =>
                LET r == classify_material(BeforeLoop[k].material_name, ruleset) IN
                /\ ~r.err
                /\ df[k].halal_status = (IF r.status = None THEN NA ELSE r.status)
                /\ df[k].reason = (IF r.reason = None THEN NA ELSE r.reason)
        /\ updated = Cardinality({k \in 1..Len(df) :
                                    Eligible(BeforeLoop[k].halal_status)})

\* with the overwrite flag set, a record that held a status and matches
\* nothing ends with a missing status and is counted, next to one that matched
C10_Witness ==
    /\ pc = "done"
    /\ overwrite
    /\ Len(df) = 2
    /\ updated = 2
    /\ \E k \in 1..2 :
         /\ BeforeLoop[k].halal_status = OldStatus
         /\ df[k].halal_status = NA
         /\ df[k].reason = NA
    /\ \E k \in 1..2 : df[k].halal_status = HARAM

====
